---- MODULE Spec2Model ----
(***************************************************************************)
(* PICALO: the interaction optimiser (InteractionOptimizer.process) and    *)
(* the PIC driver (Main.start).  Context vectors are short integer         *)
(* vectors; the numeric kernels that are not part of the control flow      *)
(* (the ieQTL mapper, the vertex optimisation) are inputs of each step.    *)
(***************************************************************************)
EXTENDS Integers, Sequences, FiniteSets, TLC

\* ------------------------------------------------------------------ bounds
MaxIter == 4
MaxHits == 3
\* the driver is run with at most this many components and iterations
MaxComponents == 2
DriverMaxIter == 2
MaxDatasets == 2
\* quality control is followed on eQTL files of at most this many rows
LoopComponents == 3
MaxRows == 2

\* a sample needs at least this many ieQTLs (the checks "<= 1" and ">= 2")
MinHitsPerSample == 2

\* -tol default 1e-3, as the fraction TolNum / TolDen
TolNum == 1
TolDen == 1000

\* -genotype_na default -1; genotypes are held in tenths, so that a dosage
\* can be rounded
GenotypeNA == -10
\* -call_rate default 0.95, as the fraction CallRateNum / CallRateDen
CallRateNum == 95
CallRateDen == 100
\* "N" >= 6
MinN == 6
\* -min_group_size default 2
Mgs == 2
\* -hardy_weinberg_pvalue default 1e-4, in units of 1e-5
HwPval == 10
\* -minor_allele_frequency default 0.01, as the fraction MafNum / MafDen
MafNum == 1
MafDen == 100

\* the discovery FDR below which the interaction mapper keeps an eQTL
\* (0.05), per mille
EqtlAlpha == 50

\* exit() without an argument raises SystemExit(None): the status is 0, as
\* it is when start() returns
ExitStatus == 0
ReturnStatus == 0

\* Python's None for a vector-valued name, and for the name `cov`
None == <<>>
NoCov == 0
\* a row of an np.empty matrix that was never assigned
Uninit == <<-1>>

\* the context vectors the vertex optimisation may return (S = 3 samples):
\* <<0, 0, 2>> correlates perfectly with the seed <<0, 0, 1>>, <<0, 1, 0>>
\* with neither (r = -0.5)
Vectors == {<<0, 0, 2>>, <<0, 1, 0>>}

\* the rows of the covariate matrix: candidate i has seed CovsM[i]
CovsM == <<(<<0, 0, 1>>), (<<0, 1, 0>>), (<<0, 0, 2>>)>>

\* what get_ieqtls reports for one context: <<n_hits, min hits per sample>>;
\* a sample is counted at most once per ieQTL, so the minimum is at most
\* n_hits; minima are drawn around the threshold
HitPairs == {p \in (0..MaxHits) \X (0..MinHitsPerSample) : p[2] <= p[1]}

\* the same for the candidates of iteration 0, with the hit counts of the
\* documented selection scenario (12, 47, 9 with minima 3, 5, 0) and a tie on
\* the count added
CandPairs == HitPairs \cup {<<12, 3>>, <<47, 5>>, <<9, 0>>, <<12, 5>>}

VARIABLES
    \* InteractionOptimizer.__init__ / process arguments
    min_iter, max_iter, n_covs, outdir,
    \* locals of InteractionOptimizer.process
    io_pc, io_exit, iteration, context_a, n_hits, io_stop, cov,
    prev_included_ieqtls, n_iterations_performed, info_m, iterations_m,
    optimized_context_a, hits_per_cov_data, min_n_hits_per_sample,
    current_iter_passed_tol, previous_iter_passed_tol,
    \* the PIC{k} directories
    disk,
    \* the inputs and arguments of Main
    defect, n_datasets, tcov, tcov_inter, n_components, force_continue,
    \* the eQTL file, the genotype file, and what calc_hwe_pvalue returns
    \* for each row
    eqtl_file, geno_file, hwe,
    \* the frames of Main.start
    eqtl_df, geno_df, call_rate_df, geno_stats_df,
    \* the numpy matrices of Main.start: the genotypes with NaN, and the
    \* expression before and after remove_covariates, held as NaN masks
    geno_m, expr_m, comp_expr_m,
    \* locals of Main.start
    pc, comp_count, stop, pic_a, n_components_performed, pic_m,
    summary_stats_m, corr_m, corr_inter_m, pic_corr_m, pic_corr_inter_m,
    components_df, pics_df,
    \* the top-level files written by this run, and how the process ended
    files, exit_code, exit_reason,
    \* the run (1: fresh output directory, 2: on the directory left by run 1),
    \* the components this run loaded and computed, what run 1 wrote, and the
    \* component for which the optimiser returned no context in run 1
    run, loaded, computed, first, none_at

io_args == <<min_iter, max_iter, n_covs, outdir>>
io_vars == <<io_pc, io_exit, iteration, context_a, n_hits, io_stop, cov,
             prev_included_ieqtls, n_iterations_performed, info_m, iterations_m,
             optimized_context_a, hits_per_cov_data, min_n_hits_per_sample,
             current_iter_passed_tol, previous_iter_passed_tol>>
main_args == <<defect, n_datasets, tcov, tcov_inter, n_components,
               force_continue, eqtl_file, geno_file, hwe>>
frames == <<eqtl_df, geno_df, call_rate_df, geno_stats_df>>
main_vars == <<pc, comp_count, stop, pic_a, n_components_performed, pic_m,
               summary_stats_m, corr_m, corr_inter_m, pic_corr_m,
               pic_corr_inter_m, components_df, pics_df>>
out_vars == <<files, exit_code, exit_reason>>
run_vars == <<run, loaded, computed, first, none_at>>
matrices == <<geno_m, expr_m, comp_expr_m>>
drv_vars == <<main_args, frames, matrices, matrices, main_vars, out_vars, run_vars>>
vars == <<io_args, io_vars, disk, drv_vars>>

\* ------------------------------------------------------- statistics.py
RECURSIVE SumSeq(_)
\* np.nan as a cell of a context vector: a value no cell of Vectors or CovsM
\* takes
NaNCell == -9

HasNaN(x) == \E i \in 1..Len(x) : x[i] = NaNCell

\* calc_vertex_xpos: NaN at the samples whose summed coefficient a is 0, the
\* vertex v elsewhere
CalcVertexXpos(zero, v) ==
    [i \in 1..Len(v) |-> IF i \in zero THEN NaNCell ELSE v[i]]

\* the sets of samples at which coef_a_sum can be 0 when the fewest ieQTLs
\* of a sample are mn: a coefficient array is 0 at the samples masked in
\* its ieQTL, so the sum is 0 at a sample that is in no ieQTL
ZeroSamples(mn, s) ==
    IF mn = 0 THEN SUBSET (1..s) \ {{}} ELSE {{}}

\* a column of a correction matrix holds a NaN: the dataset and technical
\* covariate columns are refused with NaN, a PIC is a context vector
ColumnHasNaN(c) == Len(c) = Len(CovsM[1]) /\ HasNaN(c)

\* a residualisation that leaves no NaN
RemoveCovariatesFilled(y_m, X_m, X_inter_m, inter_m) ==
    [i \in 1..Len(y_m) |-> [s \in 1..Len(y_m[i]) |-> FALSE]]

\* remove_covariates binds X_m_tmp only when X_m is given and ends with
\* "del X_m_tmp, X_inter_m_tmp": with X_inter_m alone the del raises
DelRaises(X_m, X_inter_m) == X_m = None /\ X_inter_m # None

\* remove_covariates on the NaN mask of y_m: a row keeps its NaN cells, and
\* the residuals of its other cells are NaN when the design of the row
\* holds a NaN (Main never passes X_inter_m without X_m)
RemoveCovariates(y_m, X_m, X_inter_m, inter_m) ==
    IF X_m = None /\ X_inter_m = None THEN y_m
    ELSE [i \in 1..Len(y_m) |->
            LET sample_mask == {s \in 1..Len(y_m[i]) : ~y_m[i][s]}
                nan_in_X ==
                    \/ \E c \in 1..Len(X_m) : ColumnHasNaN(X_m[c])
                    \/ /\ X_inter_m # None
                       /\ \/ \E c \in 1..Len(X_inter_m) :
                                 ColumnHasNaN(X_inter_m[c])
                          \/ \E s \in sample_mask : inter_m[i][s] = NaNCell
            IN [s \in 1..Len(y_m[i]) |->
                   IF s \in sample_mask THEN nan_in_X ELSE TRUE]]

\* remove_covariates_elementwise on the NaN mask of y_m, for the genotypes
\* X_m and the context a
RemoveCovariatesElementwise(y_m, X_m, a) ==
    [i \in 1..Len(y_m) |->
        LET sample_mask == {s \in 1..Len(y_m[i]) : ~y_m[i][s]}
            nan_in_X ==
                HasNaN(a) \/ \E s \in sample_mask : X_m[i][s] = NaNCell
        IN [s \in 1..Len(y_m[i]) |->
               IF s \in sample_mask THEN nan_in_X ELSE TRUE]]

SumSeq(s) == IF s = <<>> THEN 0 ELSE Head(s) + SumSeq(Tail(s))

\* x - mean(x), scaled by the length to stay in the integers
Dev(x) == [i \in 1..Len(x) |-> Len(x) * x[i] - SumSeq(x)]

DevSum(x, y) == SumSeq([i \in 1..Len(x) |-> Dev(x)[i] * Dev(y)[i]])

\* (1 - calc_pearsonr_vector(x, y)) < tol.  r = dev_sum / sqrt(x_rss * y_rss);
\* with a constant vector or a NaN cell r is NaN and the comparison is False.
PassedTol(x, y) ==
    LET ds == DevSum(x, y)
        xr == DevSum(x, x)
        yr == DevSum(y, y)
    IN  /\ ~HasNaN(x) /\ ~HasNaN(y)
        /\ xr * yr > 0
        /\ ds > 0
        /\ ds * ds * TolDen * TolDen > (TolDen - TolNum) * (TolDen - TolNum) * xr * yr

\* ------------------------------------------- InteractionOptimizer.process
EmptyDir == [component |-> None, iteration |-> <<>>, info |-> <<>>,
             n_hits_per_sample |-> <<>>, covariate_selection |-> FALSE,
             results |-> {}]

\* the state of the locals on entry of process (at: "loop") and while
\* process is not running (at: "idle")
ProcessLocals(at) ==
    /\ io_pc = at
    /\ io_exit = "none"
    /\ iteration = 0
    /\ context_a = None
    /\ n_hits = 0
    /\ io_stop = TRUE
    /\ cov = NoCov
    /\ prev_included_ieqtls = 0
    /\ n_iterations_performed = 0
    /\ info_m = [i \in 0..(max_iter - 1) |-> Uninit]
    /\ iterations_m = [i \in 0..max_iter |-> Uninit]
    /\ optimized_context_a = None
    /\ hits_per_cov_data = <<>>
    /\ min_n_hits_per_sample = 0
    /\ current_iter_passed_tol = FALSE
    /\ previous_iter_passed_tol = FALSE

\* a roll-back rule that also rolls back on equal ieQTL counts
RollBackOnEqual(cur, prev, prev_n, nh) ==
    \/ (~cur /\ prev)
    \/ (cur /\ prev /\ prev_n >= nh)

\* the roll-back condition of the oscillation branch
RollBack(cur, prev, prev_n, nh) ==
    \/ (~cur /\ prev)
    \/ (cur /\ prev /\ prev_n > nh)

\* an oscillation test that does not wait for min_iter
OscillationTestedFromThree(it) == it >= 3

\* the oscillation test is made at this iteration
OscillationTested(it) == it >= 3 /\ it >= min_iter

\* a convergence test that does not wait for min_iter iterations
ConvergedAnyTime(performed, ctx, opt) == PassedTol(ctx, opt)

\* normal convergence after the iteration was counted
ConvergedNormally(performed, ctx, opt) ==
    performed >= min_iter /\ PassedTol(ctx, opt)

\* a selection that does not require the minimum per sample
TakesOverAnyMin(h, m, best) ==
    \/ h > best.n_hits
    \/ (h = best.n_hits /\ m > best.min)

\* a selection that is content with one ieQTL per sample
TakesOverMinOne(h, m, best) ==
    /\ m >= MinHitsPerSample - 1
    /\ \/ h > best.n_hits
       \/ (h = best.n_hits /\ m > best.min)

\* one candidate replaces the best so far
TakesOver(h, m, best) ==
    /\ m >= MinHitsPerSample
    /\ \/ h > best.n_hits
       \/ (h = best.n_hits /\ m > best.min)

\* the loop over the candidate covariates of iteration 0
RECURSIVE SelectFrom(_, _, _)
SelectFrom(pairs, i, best) ==
    IF i > Len(pairs) THEN best
    ELSE SelectFrom(pairs, i + 1,
                    IF TakesOver(pairs[i][1], pairs[i][2], best)
                    THEN [cov |-> i, n_hits |-> pairs[i][1], min |-> pairs[i][2]]
                    ELSE best)

SelectCovariate(pairs) ==
    SelectFrom(pairs, 1, [cov |-> NoCov, n_hits |-> 0, min |-> 0])

\* an abort on the number of ieQTLs only
AbortsOnCountOnly(nh, mn) == nh <= 1

\* an abort only when there is no ieQTL at all or for one of the samples
AbortsOnZero(nh, mn) == nh <= 0 \/ mn <= 0

\* the abort checks on the number of ieQTLs and on the minimum per sample
Aborts(nh, mn) == nh <= 1 \/ mn <= MinHitsPerSample - 1

\* an abort that keeps the context at iteration 0 too
AbortContextKept(it, ctx) == ctx

\* the context that the abort branch leaves in context_a
AbortContext(it, ctx) == IF it = 0 THEN None ELSE ctx

\* a loop that does not carry the optimised context over
ContextNotUpdated(ctx, opt) == ctx

\* the context for the next round after an iteration that was kept
NextContext(ctx, opt) == opt

\* the context returned when oscillation is declared
OscillationContext(back, its, it, ctx, opt) == IF back THEN its[it] ELSE ctx

\* a loop that also runs for the index n
InRangeInclusive(it, n) == it <= n

\* "for iteration in range(self.max_iter)": the loop goes on with index it
InRange(it, n) == it < n

\* the body of one iteration from "Save results" on, for the context ctx with
\* nh ieQTLs, at least mn per sample, optimised into opt
IterationBody(ctx, nh, mn, opt) ==
    /\ disk' = [disk EXCEPT ![outdir].results = @ \cup {iteration}]
    /\ IF Aborts(nh, mn)
       THEN /\ context_a' = AbortContext(iteration, ctx)
            /\ io_stop' = IF iteration = 0 THEN FALSE ELSE io_stop
            /\ io_pc' = "save"
            /\ io_exit' = "abort"
            /\ UNCHANGED <<iteration, prev_included_ieqtls, n_iterations_performed,
                           info_m, iterations_m, optimized_context_a,
                           current_iter_passed_tol, previous_iter_passed_tol>>
            /\ n_hits' = nh
       ELSE LET its == [iterations_m EXCEPT
                          ![iteration] = IF iteration = 0 THEN ctx ELSE @,
                          ![iteration + 1] = opt]
                tested == OscillationTested(iteration)
                cur == tested /\ PassedTol(its[iteration - 1], its[iteration + 1])
                prev == tested /\ PassedTol(its[iteration - 2], its[iteration])
            IN  /\ iterations_m' = its
                /\ info_m' = [info_m EXCEPT ![iteration] = <<nh, mn>>]
                /\ optimized_context_a' = opt
                /\ current_iter_passed_tol' = cur
                /\ previous_iter_passed_tol' = prev
                /\ IF cur \/ prev
                   THEN LET back == RollBack(cur, prev, prev_included_ieqtls, nh)
                        IN  /\ context_a' = OscillationContext(back, its, iteration, ctx, opt)
                            /\ n_hits' = IF back THEN prev_included_ieqtls ELSE nh
                            /\ n_iterations_performed' =
                                 IF back THEN n_iterations_performed
                                 ELSE n_iterations_performed + 1
                            /\ io_stop' = FALSE
                            /\ io_pc' = "save"
                            /\ io_exit' = "oscillation"
                            /\ UNCHANGED <<iteration, prev_included_ieqtls>>
                   ELSE /\ context_a' = NextContext(ctx, opt)
                        /\ n_hits' = nh
                        /\ prev_included_ieqtls' = nh
                        /\ n_iterations_performed' = n_iterations_performed + 1
                        /\ IF ConvergedNormally(n_iterations_performed + 1, ctx, opt)
                           THEN /\ io_stop' = FALSE
                                /\ io_pc' = "save"
                                /\ io_exit' = "converged"
                                /\ UNCHANGED iteration
                           ELSE /\ io_stop' = io_stop
                                /\ iteration' = iteration + 1
                                /\ io_pc' = IF InRange(iteration + 1, max_iter)
                                            THEN "loop" ELSE "save"
                                /\ io_exit' = IF InRange(iteration + 1, max_iter)
                                              THEN "none" ELSE "max_iter"

\* iteration 0 with more than one candidate covariate: map the ieQTLs of
\* every candidate and pick the covariate of this component
SelectIteration ==
    /\ io_pc = "loop"
    /\ iteration = 0
    /\ n_covs # 1
    /\ \E pairs \in [1..n_covs -> CandPairs] :
         LET best == SelectCovariate(pairs)
         IN  /\ hits_per_cov_data' = pairs
             /\ cov' = best.cov
             /\ n_hits' = best.n_hits
             /\ min_n_hits_per_sample' = best.min
             /\ IF best.cov = NoCov
                THEN /\ context_a' = None
                     /\ io_stop' = FALSE
                     /\ io_pc' = "save"
                     /\ io_exit' = "novalid"
                     /\ UNCHANGED disk
                ELSE /\ context_a' = CovsM[best.cov]
                     /\ io_stop' = io_stop
                     /\ io_pc' = "selected"
                     /\ io_exit' = io_exit
                     /\ disk' = [disk EXCEPT ![outdir].covariate_selection = TRUE]
    /\ UNCHANGED <<io_args, iteration, prev_included_ieqtls, n_iterations_performed,
                   info_m, iterations_m, optimized_context_a,
                   current_iter_passed_tol, previous_iter_passed_tol, drv_vars>>

\* the rest of iteration 0 for the selected covariate
SelectedIteration ==
    /\ io_pc = "selected"
    /\ \E v \in Vectors :
         \E zero \in ZeroSamples(min_n_hits_per_sample, Len(v)) :
             IterationBody(context_a, n_hits, min_n_hits_per_sample,
                           CalcVertexXpos(zero, v))
    /\ hits_per_cov_data' = <<>>
    /\ UNCHANGED <<io_args, cov, min_n_hits_per_sample, drv_vars>>

\* an iteration on one context: the only covariate at iteration 0, the
\* context of the previous iteration later
Iteration ==
    /\ io_pc = "loop"
    /\ iteration > 0 \/ n_covs = 1
    /\ \E hp \in HitPairs, v \in Vectors :
         \E zero \in ZeroSamples(hp[2], Len(v)) :
             /\ IterationBody(IF iteration = 0 THEN CovsM[1] ELSE context_a,
                              hp[1], hp[2], CalcVertexXpos(zero, v))
             /\ min_n_hits_per_sample' = hp[2]
    /\ cov' = IF iteration = 0 THEN 1 ELSE cov
    /\ UNCHANGED <<io_args, hits_per_cov_data, drv_vars>>

\* rows 0..n-1 of a matrix, as the rows of a written table
Rows(m, n) == [i \in 1..n |-> m[i - 1]]

\* tables that are written from the second recorded iteration on
SavesTablesAfterTwo(performed) == performed > 1

\* n_hits_per_sample.txt.gz and info.txt.gz are written
SavesTables(performed) == performed > 0

\* "Save overview files" and return
SaveOverview ==
    /\ io_pc = "save"
    /\ io_pc' = "returned"
    /\ disk' = [disk EXCEPT
                  ![outdir].iteration = Rows(iterations_m, n_iterations_performed + 1),
                  ![outdir].info =
                      IF SavesTables(n_iterations_performed)
                      THEN [i \in 1..n_iterations_performed |-> info_m[i - 1][1]]
                      ELSE @,
                  ![outdir].n_hits_per_sample =
                      IF SavesTables(n_iterations_performed)
                      THEN [i \in 1..n_iterations_performed |-> info_m[i - 1][2]]
                      ELSE @]
    /\ UNCHANGED <<io_args, io_exit, iteration, context_a, n_hits, io_stop, cov,
                   prev_included_ieqtls, n_iterations_performed, info_m,
                   iterations_m, optimized_context_a, hits_per_cov_data,
                   min_n_hits_per_sample,
                   current_iter_passed_tol, previous_iter_passed_tol, drv_vars>>

\* ----------------------------------------------------- quality control
\* the sample-to-dataset file: n datasets over s samples, the first dataset
\* the largest, every other dataset two samples
DatasetOf(i, n, s) == IF i <= s - 2 * (n - 1) THEN 1 ELSE n - ((s - i) \div 2)

SamplesOf(d, n, s) == {i \in 1..s : DatasetOf(i, n, s) = d}

\* the samples of dataset d on a row that are not the missing value
Called(row, d, n) ==
    Cardinality({i \in SamplesOf(d, n, Len(row)) : row[i] # GenotypeNA})

\* call_rate_s < self.call_rate (the call rate is called / size)
BelowCallRate(row, d, n) ==
    Called(row, d, n) * CallRateDen
        < CallRateNum * Cardinality(SamplesOf(d, n, Len(row)))

\* a masking that takes the whole row once one dataset is below the call rate
CalculateCallRateWholeRow(geno, n) ==
    [geno_df |->
        [r \in 1..Len(geno) |->
            [i \in 1..Len(geno[r]) |->
                IF \E d \in 1..n : BelowCallRate(geno[r], d, n)
                THEN GenotypeNA
                ELSE geno[r][i]]],
     call_rate_df |->
        [r \in 1..Len(geno) |->
            [d \in 1..n |->
                <<Called(geno[r], d, n),
                  Cardinality(SamplesOf(d, n, Len(geno[r])))>>]]]

\* calculate_call_rate: the datasets are disjoint, so the masking of one
\* dataset leaves the call rate of the next as it was
CalculateCallRate(geno, n) ==
    [geno_df |->
        [r \in 1..Len(geno) |->
            [i \in 1..Len(geno[r]) |->
                IF BelowCallRate(geno[r], DatasetOf(i, n, Len(geno[r])), n)
                THEN GenotypeNA
                ELSE geno[r][i]]],
     call_rate_df |->
        [r \in 1..Len(geno) |->
            [d \in 1..n |->
                <<Called(geno[r], d, n),
                  Cardinality(SamplesOf(d, n, Len(geno[r])))>>]]]

\* np.rint on a value held in tenths: round half to even
Rint(v) ==
    LET q == v \div 10
        r == v % 10
    IN IF r < 5 THEN q
       ELSE IF r > 5 THEN q + 1
       ELSE IF q % 2 = 0 THEN q ELSE q + 1

\* np.sum(rounded_m == g, axis=1) for one row
GenotypeCount(row, g) == Cardinality({i \in 1..Len(row) : Rint(row[i]) = g})

Min2(a, b) == IF a <= b THEN a ELSE b

\* calculate_genotype_stats for one row; p is what calc_hwe_pvalue returns
\* for the counts handed to it, the MAF is kept as <<minor, total>> alleles
CalculateGenotypeStats(row, p) ==
    LET nan == GenotypeCount(row, Rint(GenotypeNA))
        zero_a == GenotypeCount(row, 0)
        one_a == GenotypeCount(row, 1)
        two_a == GenotypeCount(row, 2)
        allele1_a == (zero_a * 2) + one_a
        allele2_a == (two_a * 2) + one_a
    IN [filled |-> TRUE, N |-> Len(row) - nan, nan |-> nan,
        zero |-> zero_a, one |-> one_a, two |-> two_a,
        min_gs |-> Min2(zero_a, Min2(one_a, two_a)),
        hw_pval |-> p, hw_counts |-> <<one_a, zero_a, two_a>>,
        allele1 |-> allele1_a, allele2 |-> allele2_a,
        maf |-> <<Min2(allele1_a, allele2_a), allele1_a + allele2_a>>]

\* the row of geno_stats_df of an eQTL without any genotype: N = 0,
\* NaN = all samples, every other column NaN
EmptyGenotypeStats(row) ==
    [filled |-> FALSE, N |-> 0, nan |-> Len(row),
     zero |-> 0, one |-> 0, two |-> 0, min_gs |-> 0,
     hw_pval |-> 0, hw_counts |-> <<0, 0, 0>>,
     allele1 |-> 0, allele2 |-> 0, maf |-> <<0, 0>>]

\* cr_keep_mask
CrKeep(row) == \E i \in 1..Len(row) : row[i] # GenotypeNA

\* the four masks on geno_stats_df; a comparison with NaN is False
NKeep(st) == st.N >= MinN

\* a smallest genotype group that has to be larger than mgs
MgsKeepStrict(st) == st.filled /\ st.min_gs > Mgs

MgsKeep(st) == st.filled /\ st.min_gs >= Mgs
HwpvalKeep(st) == st.filled /\ st.hw_pval >= HwPval
MafKeep(st) ==
    /\ st.filled
    /\ st.maf[2] > 0
    /\ st.maf[1] * MafDen > MafNum * st.maf[2]

CombinedKeep(row, st) ==
    CrKeep(row) /\ NKeep(st) /\ MgsKeep(st) /\ HwpvalKeep(st) /\ MafKeep(st)

\* df.loc[mask, :]
RECURSIVE SelectRows(_, _)
SelectRows(df, mask) ==
    IF df = <<>> THEN <<>>
    ELSE (IF Head(mask) THEN <<Head(df)>> ELSE <<>>)
             \o SelectRows(Tail(df), Tail(mask))

\* ------------------------------------------------------------ Main.start
\* the input files have at most one fault
Defects == {"none", "geno_header", "expr_header", "covs_header", "tcovs_index",
            "geno_index", "expr_index", "geno_nan", "expr_nan", "covs_nan",
            "tcov_nan"}

\* a cell of summary_stats_m holds NaN or <<value>>
NaN == <<>>

\* the locals of start before anything is assigned, no file written
MainEntry(at) ==
    /\ pc = at
    /\ comp_count = 0
    /\ stop = FALSE
    /\ pic_a = None
    /\ n_components_performed = 0
    /\ pic_m = <<>>
    /\ summary_stats_m = <<>>
    /\ corr_m = None
    /\ corr_inter_m = None
    /\ pic_corr_m = None
    /\ pic_corr_inter_m = None
    /\ components_df = None
    /\ pics_df = None
    /\ eqtl_df = None
    /\ geno_df = None
    /\ call_rate_df = None
    /\ geno_stats_df = None
    /\ geno_m = None
    /\ expr_m = None
    /\ comp_expr_m = None
    /\ files = {}
    /\ exit_code = None
    /\ exit_reason = "none"
    /\ run = 1
    /\ loaded = {}
    /\ computed = {}
    /\ first = <<>>
    /\ none_at = <<>>

\* the locals of start at the call of process for the first component of a
\* run without correction matrices
AtProcessCall ==
    /\ pc = "process"
    /\ comp_count = 0
    /\ stop = FALSE
    /\ pic_a = None
    /\ n_components_performed = 0
    /\ pic_m = [i \in 1..n_components |-> Uninit]
    /\ summary_stats_m = [i \in 1..n_components |-> [iter |-> NaN, raw |-> NaN]]
    /\ corr_m = None
    /\ corr_inter_m = None
    /\ pic_corr_m = None
    /\ pic_corr_inter_m = None
    /\ components_df = None
    /\ pics_df = None
    /\ eqtl_df = None
    /\ geno_df = None
    /\ call_rate_df = None
    /\ geno_stats_df = None
    /\ geno_m = None
    /\ expr_m = None
    /\ comp_expr_m = None
    /\ files = {}
    /\ exit_code = None
    /\ exit_reason = "none"
    /\ run = 1
    /\ loaded = {}
    /\ computed = {1}
    /\ first = <<>>
    /\ none_at = <<>>

\* validate_data: each argument tells whether that frame is passed; the
\* result is the check that fails, in the order of the checks
ValidateData(geno, expr, covs, tcovs, eqtl) ==
    IF geno /\ defect = "geno_header" THEN "geno_header"
    ELSE IF expr /\ defect = "expr_header" THEN "expr_header"
    ELSE IF covs /\ defect = "covs_header" THEN "covs_header"
    ELSE IF tcovs /\ defect = "tcovs_index" THEN "tcovs_index"
    ELSE IF eqtl /\ geno /\ defect = "geno_index" THEN "geno_index"
    ELSE IF eqtl /\ expr /\ defect = "expr_index" THEN "expr_index"
    ELSE "ok"

\* the NaN checks of "Loading other data"
CheckNaN ==
    IF defect = "geno_nan" THEN "geno_nan"
    ELSE IF defect = "expr_nan" THEN "expr_nan"
    ELSE IF defect = "covs_nan" THEN "covs_nan"
    ELSE "ok"

\* load_tech_cov for a frame that is given (df) or not
LoadTechCov(df) ==
    IF ~df THEN "ok"
    ELSE IF defect = "tcov_nan" THEN "tcov_nan"
    ELSE ValidateData(FALSE, FALSE, FALSE, TRUE, FALSE)

\* log.error(...) followed by exit()
Exit(reason) ==
    /\ pc' = "exited"
    /\ exit_code' = <<ExitStatus>>
    /\ exit_reason' = reason

\* np.hstack on a matrix that may still be None
HStack(m, columns) == IF m # None THEN m \o columns ELSE columns

DatasetColumns(n) == [i \in 1..n |-> <<"dataset", i>>]

\* a construction that adds the interaction covariates to corr_inter_m only
ConstructInterOnly(n, tcov_m, tcov_inter_m) ==
    LET m1 == IF n > 1 THEN Tail(DatasetColumns(n)) ELSE None
        i1 == IF n > 1 THEN DatasetColumns(n) ELSE None
        m2 == IF tcov_m # None THEN HStack(m1, tcov_m) ELSE m1
        i3 == IF tcov_inter_m # None THEN HStack(i1, tcov_inter_m) ELSE i1
    IN [corr_m |-> m2, corr_inter_m |-> i3]

\* construct_correct_matrices: the matrices as sequences of columns
ConstructCorrectMatrices(n, tcov_m, tcov_inter_m) ==
    LET m1 == IF n > 1 THEN Tail(DatasetColumns(n)) ELSE None
        i1 == IF n > 1 THEN DatasetColumns(n) ELSE None
        m2 == IF tcov_m # None THEN HStack(m1, tcov_m) ELSE m1
        m3 == IF tcov_inter_m # None THEN HStack(m2, tcov_inter_m) ELSE m2
        i3 == IF tcov_inter_m # None THEN HStack(i1, tcov_inter_m) ELSE i1
    IN [corr_m |-> m3, corr_inter_m |-> i3]

\* "Loading eQTL data, genotype data, and dataset info": the first validation
LoadGenotype ==
    /\ pc = "start"
    /\ eqtl_df' = eqtl_file
    /\ geno_df' = geno_file
    /\ LET v == ValidateData(TRUE, FALSE, FALSE, FALSE, FALSE)
       IN IF v # "ok"
          THEN Exit(v)
          ELSE pc' = "qc" /\ UNCHANGED <<exit_code, exit_reason>>
    /\ UNCHANGED <<io_args, io_vars, disk, main_args, call_rate_df,
                   geno_stats_df, matrices, comp_count, stop, pic_a,
                   n_components_performed, pic_m, summary_stats_m, corr_m,
                   corr_inter_m, pic_corr_m, pic_corr_inter_m, components_df,
                   pics_df, files, run_vars>>

\* "Calculating genotype call rate per dataset": geno_df is masked in
\* place and the call rates are saved
CallRate ==
    /\ pc = "qc"
    /\ pc' = "stats"
    /\ LET cr == CalculateCallRate(geno_df, n_datasets)
       IN /\ geno_df' = cr.geno_df
          /\ call_rate_df' = cr.call_rate_df
    /\ files' = files \cup {"call_rate.txt.gz"}
    /\ UNCHANGED <<io_args, io_vars, disk, main_args, eqtl_df, geno_stats_df,
                   matrices, comp_count, stop, pic_a,
                   n_components_performed, pic_m, summary_stats_m, corr_m,
                   corr_inter_m, pic_corr_m, pic_corr_inter_m, components_df,
                   pics_df, exit_code, exit_reason, run_vars>>

\* statistics and mask on the genotypes as they were read from the file
GenotypeStatsUnmasked ==
    [r \in 1..Len(geno_file) |->
        LET st == IF CrKeep(geno_file[r])
                  THEN CalculateGenotypeStats(geno_file[r], hwe[r])
                  ELSE EmptyGenotypeStats(geno_file[r])
        IN [stats |-> st, mask |-> CombinedKeep(geno_file[r], st)]]

\* geno_stats_df with its mask column, for the frame as it is now
GenotypeStats ==
    [r \in 1..Len(geno_df) |->
        LET st == IF CrKeep(geno_df[r])
                  THEN CalculateGenotypeStats(geno_df[r], hwe[r])
                  ELSE EmptyGenotypeStats(geno_df[r])
        IN [stats |-> st, mask |-> CombinedKeep(geno_df[r], st)]]

\* "Calculating genotype stats for inclusing criteria": the rows that meet
\* the requirements are selected and the statistics are saved
QualityControl ==
    /\ pc = "stats"
    /\ pc' = "load"
    /\ LET combined_keep_mask == [r \in 1..Len(geno_df) |-> GenotypeStats[r].mask]
       IN /\ geno_stats_df' = GenotypeStats
          /\ eqtl_df' = SelectRows(eqtl_df, combined_keep_mask)
          /\ geno_df' = SelectRows(geno_df, combined_keep_mask)
    /\ files' = files \cup {"genotype_stats.txt.gz"}
    /\ UNCHANGED <<io_args, io_vars, disk, main_args, call_rate_df,
                   matrices, comp_count, stop, pic_a,
                   n_components_performed, pic_m, summary_stats_m, corr_m,
                   corr_inter_m, pic_corr_m, pic_corr_inter_m, components_df,
                   pics_df, exit_code, exit_reason, run_vars>>

\* "Fill the missing values with NaN." for an expression file without NaN:
\* the NaN mask of expr_m
MaskExpression(geno) ==
    [r \in 1..Len(geno) |->
        [s \in 1..Len(geno[r]) |-> geno[r][s] = GenotypeNA]]

\* the same for geno_m
MaskGenotype(geno) ==
    [r \in 1..Len(geno) |->
        [s \in 1..Len(geno[r]) |->
            IF geno[r][s] = GenotypeNA THEN NaNCell ELSE geno[r][s]]]

\* "Loading other data": the NaN checks, the second validation and
\* "Transform to numpy matrices for speed"
LoadOtherData ==
    /\ pc = "load"
    /\ LET n == CheckNaN
           v == ValidateData(TRUE, TRUE, TRUE, FALSE, TRUE)
       IN IF n # "ok" THEN Exit(n) /\ UNCHANGED <<geno_m, expr_m>>
          ELSE IF v # "ok" THEN Exit(v) /\ UNCHANGED <<geno_m, expr_m>>
          ELSE /\ pc' = "tcov"
               /\ expr_m' = MaskExpression(geno_df)
               /\ geno_m' = MaskGenotype(geno_df)
               /\ UNCHANGED <<exit_code, exit_reason>>
    /\ UNCHANGED <<io_args, io_vars, disk, main_args, frames, comp_expr_m, comp_count, stop, pic_a,
                   n_components_performed, pic_m, summary_stats_m, corr_m,
                   corr_inter_m, pic_corr_m, pic_corr_inter_m, components_df,
                   pics_df, files, run_vars>>

\* "Loading technical covariates", the correction matrices and the locals
\* of "Starting PIC identification"
PrepareIdentification ==
    /\ pc = "tcov"
    /\ LET t1 == LoadTechCov(tcov)
           t2 == LoadTechCov(tcov_inter)
           m == ConstructCorrectMatrices(
                    n_datasets,
                    IF tcov THEN << <<"tcov">> >> ELSE None,
                    IF tcov_inter THEN << <<"tcov_inter">> >> ELSE None)
       IN IF t1 # "ok" \/ t2 # "ok"
          THEN /\ Exit(IF t1 # "ok" THEN t1 ELSE t2)
               /\ UNCHANGED <<comp_count, stop, pic_a, n_components_performed,
                              pic_m, summary_stats_m, corr_m, corr_inter_m,
                              pic_corr_m, pic_corr_inter_m, components_df>>
          ELSE /\ pc' = "loop"
               /\ corr_m' = m.corr_m
               /\ corr_inter_m' = m.corr_inter_m
               /\ pic_m' = [i \in 1..n_components |-> Uninit]
               /\ summary_stats_m' =
                      [i \in 1..n_components |-> [iter |-> NaN, raw |-> NaN]]
               /\ n_components_performed' = 0
               /\ pic_a' = None
               /\ stop' = FALSE
               /\ pic_corr_m' = m.corr_m
               /\ pic_corr_inter_m' = m.corr_inter_m
               /\ components_df' = None
               /\ comp_count' = 0
               /\ UNCHANGED <<exit_code, exit_reason>>
    /\ UNCHANGED <<io_args, io_vars, disk, main_args, frames, matrices, pics_df, files, run_vars>>

\* a loop head that halts only with force_continue
HaltsForced(s, fc) == s /\ fc

\* the head of the component loop halts on a component that did not converge
Halts(s, fc) == s /\ ~fc

\* a component that is put in front of the base matrix
AppendPICFirst(m, p) ==
    IF p # None
    THEN IF m # None THEN <<p>> \o m ELSE <<p>>
    ELSE m

\* "Add component to the base matrix."
AppendPIC(m, p) ==
    IF p # None
    THEN IF m # None THEN Append(m, p) ELSE <<p>>
    ELSE m

\* a loop that goes on after a component without context under
\* force_continue
BreaksOnNoneUnlessForced(p, fc) == p = None /\ ~fc

\* "Stop if the returned component is None."
BreaksOnNone(p, fc) == p = None

\* a PICs.txt.gz that always holds every row of components_df
DropsNever(s, fc) == FALSE

\* the last row of components_df is left out of pics_df
DropsLast(s, fc) == s /\ ~fc

\* identical inputs give identical results: the call of process of run 1
\* that returned no component returns the same in run 2
Replays(k) == run = 2 /\ none_at # <<>> /\ none_at[1] = k

\* "Increment counter." and "Saving component output file."
ComponentDone(k, p) ==
    /\ pic_m' = [pic_m EXCEPT ![k] = p]
    /\ n_components_performed' = n_components_performed + 1
    /\ components_df' = SubSeq(pic_m', 1, n_components_performed')
    /\ files' = files \cup {"components.txt.gz"}
    /\ comp_count' = comp_count + 1
    /\ pc' = "loop"

\* range(n_components) is exhausted
LoopEnd ==
    /\ pc = "loop"
    /\ comp_count = n_components
    /\ pc' = "finish"
    /\ UNCHANGED <<io_args, io_vars, disk, main_args, frames, matrices, comp_count, stop, pic_a,
                   n_components_performed, pic_m, summary_stats_m, corr_m,
                   corr_inter_m, pic_corr_m, pic_corr_inter_m, components_df,
                   pics_df, out_vars, run_vars>>

\* "Last component did not converge", "Stop further identification"
Halt ==
    /\ pc = "loop"
    /\ comp_count < n_components
    /\ Halts(stop, force_continue)
    /\ pc' = "finish"
    /\ UNCHANGED <<io_args, io_vars, disk, main_args, frames, matrices, comp_count, stop, pic_a,
                   n_components_performed, pic_m, summary_stats_m, corr_m,
                   corr_inter_m, pic_corr_m, pic_corr_inter_m, components_df,
                   pics_df, out_vars, run_vars>>

\* component.npy exists: "PIC has already been identified"
LoadComponent ==
    /\ pc = "loop"
    /\ comp_count < n_components
    /\ ~Halts(stop, force_continue)
    /\ LET k == comp_count + 1
           dir == disk[k]
       IN /\ dir.component # None
          /\ pic_corr_m' = AppendPIC(pic_corr_m, pic_a)
          /\ pic_corr_inter_m' = AppendPIC(pic_corr_inter_m, pic_a)
          /\ pic_a' = dir.component
          /\ summary_stats_m' =
                 IF dir.info # <<>>
                 THEN [summary_stats_m EXCEPT
                         ![k].iter = <<dir.info[Len(dir.info)]>>]
                 ELSE summary_stats_m
          /\ ComponentDone(k, dir.component)
          /\ loaded' = loaded \cup {k}
    /\ UNCHANGED <<io_args, io_vars, disk, main_args, frames, matrices, stop, corr_m,
                   corr_inter_m, pics_df, exit_code, exit_reason, run,
                   computed, first, none_at>>

\* no component.npy: "Correcting expression matrix" and the call of process
StartComponent ==
    /\ pc = "loop"
    /\ comp_count < n_components
    /\ ~Halts(stop, force_continue)
    /\ LET k == comp_count + 1
       IN /\ disk[k].component = None
          /\ ~Replays(k)
          /\ outdir' = k
          /\ computed' = computed \cup {k}
    /\ pic_corr_m' = AppendPIC(pic_corr_m, pic_a)
    /\ pic_corr_inter_m' = AppendPIC(pic_corr_inter_m, pic_a)
    /\ pc' = "process"
    /\ comp_expr_m' = RemoveCovariates(expr_m,
                                       AppendPIC(pic_corr_m, pic_a),
                                       AppendPIC(pic_corr_inter_m, pic_a),
                                       geno_m)
    /\ io_pc' = "loop"
    /\ UNCHANGED <<min_iter, max_iter, n_covs, io_exit, iteration, context_a,
                   n_hits, io_stop, cov, prev_included_ieqtls,
                   n_iterations_performed, info_m, iterations_m,
                   optimized_context_a, hits_per_cov_data,
                   min_n_hits_per_sample, current_iter_passed_tol,
                   previous_iter_passed_tol, disk, main_args, frames, geno_m, expr_m, comp_count,
                   stop, pic_a, n_components_performed, pic_m,
                   summary_stats_m, corr_m, corr_inter_m, components_df,
                   pics_df, out_vars, run, loaded, first, none_at>>

\* the same call in run 2 for the component that process gave up in run 1:
\* it gives the component up again, with the same count
ReplayComponent ==
    /\ pc = "loop"
    /\ comp_count < n_components
    /\ ~Halts(stop, force_continue)
    /\ LET k == comp_count + 1
       IN /\ disk[k].component = None
          /\ Replays(k)
          /\ outdir' = k
          /\ computed' = computed \cup {k}
    /\ pic_corr_m' = AppendPIC(pic_corr_m, pic_a)
    /\ pic_corr_inter_m' = AppendPIC(pic_corr_inter_m, pic_a)
    /\ pc' = "process"
    /\ comp_expr_m' = RemoveCovariates(expr_m,
                                       AppendPIC(pic_corr_m, pic_a),
                                       AppendPIC(pic_corr_inter_m, pic_a),
                                       geno_m)
    /\ io_pc' = "returned"
    /\ context_a' = None
    /\ n_hits' = none_at[2]
    /\ io_stop' = FALSE
    /\ UNCHANGED <<min_iter, max_iter, n_covs, io_exit, iteration, cov,
                   prev_included_ieqtls, n_iterations_performed, info_m,
                   iterations_m, optimized_context_a, hits_per_cov_data,
                   min_n_hits_per_sample, current_iter_passed_tol,
                   previous_iter_passed_tol, disk, main_args, frames, geno_m, expr_m, comp_count,
                   stop, pic_a, n_components_performed, pic_m,
                   summary_stats_m, corr_m, corr_inter_m, components_df,
                   pics_df, out_vars, run, loaded, first, none_at>>

\* process has returned: its frame is left
LeaveProcess ==
    /\ io_pc' = "idle"
    /\ io_exit' = "none"
    /\ iteration' = 0
    /\ context_a' = None
    /\ n_hits' = 0
    /\ io_stop' = TRUE
    /\ cov' = NoCov
    /\ prev_included_ieqtls' = 0
    /\ n_iterations_performed' = 0
    /\ info_m' = [i \in 0..(max_iter - 1) |-> Uninit]
    /\ iterations_m' = [i \in 0..max_iter |-> Uninit]
    /\ optimized_context_a' = None
    /\ hits_per_cov_data' = <<>>
    /\ min_n_hits_per_sample' = 0
    /\ current_iter_passed_tol' = FALSE
    /\ previous_iter_passed_tol' = FALSE

\* "pic_a, n_ieqtls, stop = io.process(...)" and the rest of the loop body
ProcessReturn ==
    /\ pc = "process"
    /\ io_pc = "returned"
    /\ LeaveProcess
    /\ LET k == comp_count + 1
       IN /\ pic_a' = context_a
          /\ stop' = io_stop
          /\ summary_stats_m' = [summary_stats_m EXCEPT ![k].iter = <<n_hits>>]
          /\ none_at' = IF context_a = None /\ run = 1
                         THEN <<k, n_hits>>
                         ELSE none_at
          /\ IF BreaksOnNone(context_a, force_continue)
             THEN /\ pc' = "finish"
                  /\ UNCHANGED <<disk, pic_m, n_components_performed,
                                 components_df, files, comp_count>>
             ELSE /\ disk' = [disk EXCEPT ![k].component = context_a]
                  /\ ComponentDone(k, context_a)
    /\ UNCHANGED <<io_args, main_args, frames, matrices, corr_m, corr_inter_m, pic_corr_m,
                   pic_corr_inter_m, pics_df, exit_code, exit_reason, run,
                   loaded, computed, first>>

\* "No PICs identified. Stopping PICALO."
NoPICs ==
    /\ pc = "finish"
    /\ n_components_performed = 0
    /\ files' = files \cup {"SummaryStats.txt.gz"}
    /\ Exit("no_pics")
    /\ UNCHANGED <<io_args, io_vars, disk, main_args, frames, matrices, comp_count, stop, pic_a,
                   n_components_performed, pic_m, summary_stats_m, corr_m,
                   corr_inter_m, pic_corr_m, pic_corr_inter_m, components_df,
                   pics_df, run_vars>>

\* a mapping on the expression corrected with the matrices of the loop
RawHitsAfterPICs(pic, X_m, X_inter_m) ==
    [context |-> pic, X_m |-> pic_corr_m, X_inter_m |-> pic_corr_inter_m]

\* the count of the ieQTL mapping of one PIC on the expression corrected
\* with the base matrices, named by what it is computed from
RawHits(pic, X_m, X_inter_m) ==
    [context |-> pic, X_m |-> X_m, X_inter_m |-> X_inter_m]

\* PICs.txt.gz, the mapping without correction for previous PICs,
\* SummaryStats.txt.gz, "Finished"
Finish ==
    /\ pc = "finish"
    /\ n_components_performed > 0
    /\ LET pics == IF DropsLast(stop, force_continue)
                   THEN SubSeq(components_df, 1, Len(components_df) - 1)
                   ELSE components_df
       IN /\ pics_df' = pics
          /\ summary_stats_m' =
                 [i \in 1..n_components |->
                     IF i <= Len(pics)
                     THEN [summary_stats_m[i] EXCEPT
                             !.raw = <<RawHits(pics[i], corr_m, corr_inter_m)>>]
                     ELSE summary_stats_m[i]]
          /\ files' = files \cup {"PICs.txt.gz", "SummaryStats.txt.gz"}
                       \cup (IF Len(pics) > 0 THEN {"PIC_interactions"} ELSE {})
    /\ pc' = "exited"
    /\ exit_code' = <<ReturnStatus>>
    /\ exit_reason' = "finished"
    /\ UNCHANGED <<io_args, io_vars, disk, main_args, frames, matrices, comp_count, stop, pic_a,
                   n_components_performed, pic_m, corr_m, corr_inter_m,
                   pic_corr_m, pic_corr_inter_m, components_df, run_vars>>

\* what a run leaves behind next to the PIC directories
Outputs == [components |-> components_df, pics |-> pics_df,
            summary |-> summary_stats_m, files |-> files,
            handled |-> loaded \cup computed]

\* the program is started again with the same arguments and inputs on the
\* output directory of the first run
Restart ==
    /\ pc = "exited"
    /\ run = 1
    /\ defect = "none"
    /\ run' = 2
    /\ first' = Outputs
    /\ pc' = "start"
    /\ files' = {}
    /\ exit_code' = None
    /\ exit_reason' = "none"
    /\ pics_df' = None
    /\ loaded' = {}
    /\ computed' = {}
    /\ UNCHANGED <<io_args, io_vars, disk, main_args, frames, matrices, comp_count, stop, pic_a,
                   n_components_performed, pic_m, summary_stats_m, corr_m,
                   corr_inter_m, pic_corr_m, pic_corr_inter_m, components_df,
                   none_at>>

\* eQTL and genotype files of which quality control keeps the first row,
\* drops the second, and keeps the third, with its second dataset masked,
\* in a run with two datasets
ValidInput ==
    /\ eqtl_file = <<[SNPName |-> 1, FDR |-> 10], [SNPName |-> 2, FDR |-> 10],
                     [SNPName |-> 3, FDR |-> 10]>>
    /\ geno_file = <<(<<0, 0, 10, 10, 20, 20, 0, 10>>),
                     (<<0, 0, 10, 10, 20, 0, 0, 10>>),
                     (<<0, 0, 10, 10, 20, 20, GenotypeNA, 10>>)>>
    /\ hwe = <<HwPval, HwPval, HwPval>>

\* a fresh output directory and any arguments and inputs within the bounds;
\* the covariate file has one row, so that every component starts from it
\* (the selection among several rows is followed in SpecProcess)
Init ==
    /\ defect \in Defects
    /\ n_datasets \in 1..MaxDatasets
    /\ tcov \in BOOLEAN
    /\ tcov_inter \in BOOLEAN
    /\ defect \in {"tcovs_index", "tcov_nan"} => tcov \/ tcov_inter
    /\ n_components \in 1..MaxComponents
    /\ force_continue \in BOOLEAN
    /\ ValidInput
    /\ max_iter \in 1..DriverMaxIter
    /\ min_iter \in 0..DriverMaxIter
    /\ n_covs = 1
    /\ outdir = 1
    /\ disk = [k \in 1..n_components |-> EmptyDir]
    /\ ProcessLocals("idle")
    /\ MainEntry("start")

Next ==
    \/ LoadGenotype \/ CallRate \/ QualityControl \/ LoadOtherData \/ PrepareIdentification
    \/ LoopEnd \/ Halt \/ LoadComponent \/ StartComponent \/ ReplayComponent
    \/ Iteration \/ SaveOverview \/ ProcessReturn
    \/ NoPICs \/ Finish \/ Restart

Spec == Init /\ [][Next]_vars

\* a run on valid inputs with the largest numbers of components and of
\* iterations, when it is not halted from outside: a step that can be taken
\* is taken
InitFair ==
    /\ defect = "none"
    /\ n_datasets = 1
    /\ tcov = FALSE
    /\ tcov_inter = FALSE
    /\ n_components = MaxComponents
    /\ force_continue \in BOOLEAN
    /\ ValidInput
    /\ max_iter = DriverMaxIter
    /\ min_iter = 0
    /\ n_covs = 1
    /\ outdir = 1
    /\ disk = [k \in 1..n_components |-> EmptyDir]
    /\ ProcessLocals("idle")
    /\ MainEntry("start")

FairSpec == InitFair /\ [][Next]_vars /\ WF_vars(Next)

\* ------------------------------------------------ the optimiser on its own
\* one call of process, for the first component of a run of Main that is at
\* the call, with any min_iter and max_iter and one or several covariates
InitProcess ==
    /\ max_iter \in 1..MaxIter
    /\ min_iter \in 0..MaxIter
    /\ n_covs \in {1, Len(CovsM)}
    /\ outdir = 1
    /\ disk = [k \in 1..1 |-> EmptyDir]
    /\ ProcessLocals("loop")
    /\ defect = "none"
    /\ n_datasets = 1
    /\ tcov = FALSE
    /\ tcov_inter = FALSE
    /\ n_components = 1
    /\ force_continue = FALSE
    /\ ValidInput
    /\ AtProcessCall

NextProcess ==
    \/ SelectIteration \/ SelectedIteration \/ Iteration \/ SaveOverview
    \/ ProcessReturn

SpecProcess == InitProcess /\ [][NextProcess]_vars

\* ------------------------------------------------ quality control alone
\* the genotype rows of eight samples the eQTL file is drawn from, in tenths:
\* groups of 3, 3, 2; groups of 4, 3, 1; a missing sample that leaves
\* groups of 2, 2, 2 once its dataset of two is masked; a missing sample
\* that leaves groups of 3, 2, 1 once its dataset is masked (3, 2, 2 before);
\* no genotype at all; dosages that round to groups of 4, 2, 2 (0.5 rounds
\* to 0); one allele only
GenoRows == {<<0, 0, 10, 10, 20, 20, 0, 10>>,
             <<0, 0, 10, 10, 20, 0, 0, 10>>,
             <<0, 0, 10, 10, 20, 20, -10, 10>>,
             <<0, 0, 10, 10, 20, 0, -10, 20>>,
             <<-10, -10, -10, -10, -10, -10, -10, -10>>,
             <<4, 0, 10, 14, 20, 16, 0, 5>>,
             <<0, 0, 0, 0, 0, 0, 0, 0>>}

\* discovery FDRs (per mille) below and at EqtlAlpha
FDRs == {10, EqtlAlpha}

\* Hardy-Weinberg p-values below and at the threshold
HwPvals == {HwPval - 1, HwPval}

\* a run of Main up to the end of quality control, on any eQTL file of up
\* to MaxRows rows
InitQC ==
    /\ \E e \in 1..MaxRows :
          /\ geno_file \in [1..e -> GenoRows]
          /\ eqtl_file \in {f \in [1..e -> [SNPName : 1..e, FDR : FDRs]] :
                                \A i \in 1..e : f[i].SNPName = i}
          /\ hwe \in [1..e -> HwPvals]
    /\ n_datasets \in 1..MaxDatasets
    /\ defect = "none"
    /\ tcov = FALSE
    /\ tcov_inter = FALSE
    /\ n_components = 1
    /\ force_continue = FALSE
    /\ max_iter = 1
    /\ min_iter = 0
    /\ n_covs = 1
    /\ outdir = 1
    /\ disk = [k \in 1..1 |-> EmptyDir]
    /\ ProcessLocals("idle")
    /\ MainEntry("start")

NextQC == LoadGenotype \/ CallRate \/ QualityControl

SpecQC == InitQC /\ [][NextQC]_vars

\* ------------------------------------------------ the component loop alone
\* a run over LoopComponents components with both correction matrices
\* present, on a fresh output directory, each component with one iteration
\* (the iterations are followed in Spec and SpecProcess)
InitLoop ==
    /\ defect = "none"
    /\ n_datasets = MaxDatasets
    /\ tcov = TRUE
    /\ tcov_inter \in BOOLEAN
    /\ n_components = LoopComponents
    /\ force_continue \in BOOLEAN
    /\ ValidInput
    /\ max_iter = 1
    /\ min_iter = 0
    /\ n_covs = 1
    /\ outdir = 1
    /\ disk = [k \in 1..n_components |-> EmptyDir]
    /\ ProcessLocals("idle")
    /\ MainEntry("start")

SpecLoop == InitLoop /\ [][Next]_vars

\* --------------------------------------------------- claims on the driver
\* C1: at the head of the component loop, when the optimisation of the last
\* component returned stop = true and force_continue is not set, the only
\* step the driver takes is to leave the loop: no component is computed or
\* loaded, nothing is appended to the correction matrices, process is not
\* entered and nothing is written.
C1_HaltsOnStop ==
    [][(pc = "loop" /\ stop /\ ~force_continue)
           => /\ pc' = "finish"
              /\ UNCHANGED <<computed, loaded, pic_corr_m, pic_corr_inter_m,
                             comp_count, n_components_performed, pic_a,
                             io_vars, disk, files>>]_vars

\* the driver has left the loop with a component still to go, after the
\* component it computed last returned stop = true
C1_Witness ==
    /\ pc = "finish"
    /\ stop
    /\ ~force_continue
    /\ comp_count < n_components
    /\ comp_count \in computed

\* C2: a run that loaded at least one component written by an identical
\* earlier run ends with the outputs of that run: the same components
\* handled, the same rows of components.txt.gz and PICs.txt.gz, the same
\* SummaryStats values.
C2_ResumeIdempotent ==
    (run = 2 /\ pc = "exited" /\ loaded # {}) => Outputs = first

\* process returned no context for the first of two components, with
\* force_continue set
FirstGivenUp ==
    /\ n_components = 2
    /\ force_continue
    /\ none_at # <<>>
    /\ none_at[1] = 1
    /\ 1 \in computed
    /\ pc # "process"

C4_FailureExitsNonZero ==
    (pc = "exited" /\ exit_reason # "finished") => exit_code # <<0>>

\* the checks of validate_data
Mismatches == {"geno_header", "expr_header", "covs_header", "tcovs_index",
               "geno_index", "expr_index"}

\* C11: a run that ended on a header or label mismatch has written no
\* output file.
C11_NoPartialOutput ==
    (pc = "exited" /\ exit_reason \in Mismatches) => files = {}

\* C12: once the call rates are computed, and so for every eQTL that is
\* left after quality control, the discovery FDR is below alpha_eQTL.
C12_FdrFiltered ==
    pc \in {"stats", "load"}
        => \A i \in 1..Len(eqtl_df) : eqtl_df[i].FDR < EqtlAlpha

\* the genotype rows after the call-rate masking
MaskedRows == CalculateCallRate(geno_file, n_datasets).geno_df

\* row r of genotype_stats meets the four thresholds
MeetsThresholds(r) ==
    LET st == geno_stats_df[r].stats
    IN /\ st.N >= 6
       /\ st.min_gs >= 2
       /\ st.hw_pval >= HwPval
       /\ st.maf[1] * 100 > st.maf[2]

\* C13: after quality control the mask column of genotype_stats is 1 exactly
\* for the rows with N >= 6, smallest genotype group >= 2, HWE p >= 1e-4 and
\* MAF > 0.01, N being the number of non-missing samples of the row; the
\* eQTL list and the genotype matrix hold exactly those rows, in the order
\* of the files.
C13_KeptRows ==
    pc = "load"
        => /\ \A r \in 1..Len(geno_file) :
                 /\ geno_stats_df[r].mask = MeetsThresholds(r)
                 /\ geno_stats_df[r].stats.N =
                        Cardinality({i \in 1..Len(MaskedRows[r]) :
                                        MaskedRows[r][i] # GenotypeNA})
           /\ Len(eqtl_df) =
                  Cardinality({r \in 1..Len(geno_file) : MeetsThresholds(r)})
           /\ Len(geno_df) = Len(eqtl_df)
           /\ \A j \in 1..Len(eqtl_df) :
                 /\ MeetsThresholds(eqtl_df[j].SNPName)
                 /\ eqtl_df[j] = eqtl_file[eqtl_df[j].SNPName]
                 /\ geno_df[j] = MaskedRows[eqtl_df[j].SNPName]
                 /\ \A k \in 1..Len(eqtl_df) :
                       j < k => eqtl_df[j].SNPName < eqtl_df[k].SNPName

\* quality control has kept a row whose smallest group is exactly 2 and
\* dropped one whose smallest group is exactly 1 and that meets the other
\* thresholds
C13_Witness ==
    /\ pc = "load"
    /\ \E r \in 1..Len(geno_file) :
          /\ geno_stats_df[r].stats.min_gs = 2
          /\ geno_stats_df[r].mask
          /\ \E j \in 1..Len(eqtl_df) : eqtl_df[j].SNPName = r
    /\ \E r \in 1..Len(geno_file) :
          /\ geno_stats_df[r].stats.min_gs = 1
          /\ geno_stats_df[r].stats.N >= 6
          /\ geno_stats_df[r].stats.hw_pval >= HwPval
          /\ ~geno_stats_df[r].mask
          /\ \A j \in 1..Len(eqtl_df) : eqtl_df[j].SNPName # r

\* C15: the interaction correction matrix is every dataset column followed
\* by the interacting technical covariates, for one dataset as for more.
C15_AllDatasetColumns ==
    pc = "loop"
        => corr_inter_m =
               DatasetColumns(n_datasets)
                   \o (IF tcov_inter THEN << <<"tcov_inter">> >> ELSE << >>)

\* the columns of m are the first columns of n, in the same order
IsPrefix(m, n) == Len(m) <= Len(n) /\ SubSeq(n, 1, Len(m)) = m

\* C16: when component k is computed both correction matrices are their
\* base columns followed by PIC1..PIC(k-1) in order, each once, computed
\* in this run or loaded from disk; after their construction the matrices
\* only grow at the end.
C16_PriorPICsAppended ==
    [][/\ pc' = "process"
           => /\ pic_corr_m' = corr_m' \o SubSeq(pic_m', 1, comp_count')
              /\ pic_corr_inter_m' =
                     corr_inter_m' \o SubSeq(pic_m', 1, comp_count')
       /\ pc # "tcov"
           => /\ IsPrefix(pic_corr_m, pic_corr_m')
              /\ IsPrefix(pic_corr_inter_m, pic_corr_inter_m')]_vars

\* component 3 is computed after a first component that was loaded from
\* disk and a different second one that was computed in this run
C16_Witness ==
    /\ pc = "process"
    /\ comp_count = 2
    /\ loaded = {1}
    /\ 2 \in computed
    /\ pic_m[1] # pic_m[2]
    /\ corr_m # None
    /\ corr_inter_m # None
    /\ pic_corr_m = corr_m \o <<pic_m[1], pic_m[2]>>

\* dataset d of input row r has a call rate below 0.95
LowCallRate(r, d) ==
    LET cols == SamplesOf(d, n_datasets, Len(geno_file[r]))
    IN Cardinality({i \in cols : geno_file[r][i] # GenotypeNA}) * 100
           < 95 * Cardinality(cols)

\* row r of the frame is input row q with the datasets below the call rate
\* set to the missing value and every other cell as it was
MaskedPerDataset(row, q) ==
    /\ Len(row) = Len(geno_file[q])
    /\ \A d \in 1..n_datasets :
          \A i \in SamplesOf(d, n_datasets, Len(geno_file[q])) :
              row[i] = IF LowCallRate(q, d) THEN GenotypeNA
                       ELSE geno_file[q][i]

RolledBack == n_iterations_performed = iteration

\* C5: when oscillation is declared the component is marked converged and the
\* returned context is the previous context if the roll-back condition holds
\* and the newly optimised vector c' otherwise
C5_OscillationReturnsOptimised ==
    io_exit = "oscillation" =>
        /\ io_stop = FALSE
        /\ context_a = IF RolledBack THEN iterations_m[iteration]
                       ELSE optimized_context_a

C7_Abort ==
    /\ io_exit = "abort" =>
        /\ n_hits <= 1 \/ min_n_hits_per_sample <= 1
        /\ n_iterations_performed = iteration
        /\ iteration = 0 => (context_a = None /\ io_stop = FALSE)
        /\ iteration > 0 => (context_a = iterations_m[iteration] /\ io_stop = TRUE)
    /\ (io_exit \in {"oscillation", "converged", "max_iter"}
        \/ (io_exit = "none" /\ iteration > 0)) =>
        /\ min_n_hits_per_sample >= 2
        /\ \A i \in 0..(n_iterations_performed - 1) : info_m[i][1] >= 2

C7_Witness ==
    /\ io_pc = "returned"
    /\ io_exit = "abort"
    /\ iteration = 2
    /\ n_hits = 3
    /\ min_n_hits_per_sample = 1
    /\ context_a = iterations_m[2]

\* C8: when all max_iter iterations run without convergence, oscillation or
\* abort, the context optimised in the last iteration is returned with
\* stop = true
C8_MaxIter ==
    io_exit = "max_iter" =>
        /\ iteration = max_iter
        /\ n_iterations_performed = max_iter
        /\ context_a = optimized_context_a
        /\ context_a = iterations_m[max_iter]
        /\ io_stop = TRUE

C8_Witness ==
    /\ io_pc = "returned"
    /\ io_exit = "max_iter"
    /\ max_iter = 3
    /\ context_a # iterations_m[max_iter - 1]

\* C9: convergence, normal or by oscillation, is never declared before
\* min_iter iterations were completed, and normal convergence only if
\* 1 - Pearson(c, c') < tol for the current iteration
C9_MinIter ==
    /\ io_exit \in {"converged", "oscillation"} =>
        /\ n_iterations_performed >= min_iter
        /\ io_stop = FALSE
    /\ io_exit = "converged" =>
        /\ n_iterations_performed = iteration + 1
        /\ PassedTol(iterations_m[iteration], iterations_m[iteration + 1])

C9_Witness ==
    /\ io_pc = "returned"
    /\ io_exit = "converged"
    /\ min_iter = 2
    /\ n_iterations_performed = 3

\* C10: the candidates of iteration 0 that may be selected, and the order on
\* them: more ieQTLs first, then the higher minimum per sample
Eligible(pairs) == {i \in DOMAIN pairs : pairs[i][2] >= 2}

Better(p, q) == p[1] > q[1] \/ (p[1] = q[1] /\ p[2] > q[2])

\* C10: at iteration 0 with more than one candidate, the selected covariate is
\* the candidate with a minimum per sample of at least 2 that has the most
\* ieQTLs, ties broken by the higher minimum and then by the earliest
\* candidate; without such a candidate none is selected.  Counts (12, 47, 9)
\* with minima (3, 5, 0) select candidate 2.
C10_Selection ==
    hits_per_cov_data # <<>> =>
        LET pairs == hits_per_cov_data
        IN  /\ Eligible(pairs) = {} => cov = NoCov
            /\ Eligible(pairs) # {} =>
                 /\ cov \in Eligible(pairs)
                 /\ n_hits = pairs[cov][1]
                 /\ context_a = CovsM[cov]
                 /\ \A j \in Eligible(pairs) :
                      /\ ~Better(pairs[j], pairs[cov])
                      /\ pairs[j] = pairs[cov] => cov <= j
            /\ pairs = <<(<<12, 3>>), (<<47, 5>>), (<<9, 0>>)>> => cov = 2

C10_Witness ==
    /\ io_pc = "selected"
    /\ hits_per_cov_data = <<(<<12, 3>>), (<<47, 5>>), (<<9, 0>>)>>
    /\ cov = 2

C19_TablesWithComponent ==
    /\ \A k \in DOMAIN disk :
          disk[k].component # None
              => /\ disk[k].iteration # <<>>
                 /\ disk[k].info # <<>>
                 /\ disk[k].n_hits_per_sample # <<>>
    /\ (io_pc = "returned" /\ context_a # None)
           => /\ n_iterations_performed >= 1
              /\ Len(disk[outdir].info) = n_iterations_performed
              /\ Len(disk[outdir].n_hits_per_sample) = n_iterations_performed
              /\ Len(disk[outdir].iteration) = n_iterations_performed + 1

\* the second component was saved after a single recorded iteration
C19_Witness ==
    /\ pc = "loop"
    /\ comp_count = 2
    /\ 2 \in computed
    /\ disk[2].component # None
    /\ Len(disk[2].info) = 1
    /\ Len(disk[2].iteration) = 2

\* C20: every row of info.txt.gz counts at least 2 ieQTLs and every row of
\* n_hits_per_sample.txt.gz has a minimum of at least 2 ieQTLs per sample.
C20_PersistedRowsValid ==
    \A k \in DOMAIN disk :
        /\ \A i \in 1..Len(disk[k].info) : disk[k].info[i] >= 2
        /\ \A i \in 1..Len(disk[k].n_hits_per_sample) :
              disk[k].n_hits_per_sample[i] >= 2

\* process has returned from an abort after a recorded iteration with
\* exactly 2 ieQTLs and exactly 2 per sample
C20_Witness ==
    /\ io_pc = "returned"
    /\ io_exit = "abort"
    /\ min_n_hits_per_sample <= 1
    /\ \E i \in 1..Len(disk[1].info) :
          disk[1].info[i] = 2 /\ disk[1].n_hits_per_sample[i] = 2

\* the counters of the two loops are within their ranges
C21_Bounded ==
    /\ iteration <= max_iter
    /\ io_pc \in {"loop", "selected"} => iteration < max_iter
    /\ n_iterations_performed <= max_iter
    /\ \A k \in DOMAIN disk :
          disk[k].results \subseteq 0..(max_iter - 1)
    /\ comp_count <= n_components
    /\ n_components_performed <= n_components
    /\ loaded \cap computed = {}
    /\ loaded \cup computed \subseteq 1..n_components

\* a step of the component loop handles one component that this run has
\* not handled before
C21_Once ==
    (pc = "loop" /\ (loaded' # loaded \/ computed' # computed))
        => /\ (comp_count + 1) \notin (loaded \cup computed)
           /\ (loaded' \cup computed') = (loaded \cup computed) \cup {comp_count + 1}

\* C21: every call of process ends after at most max_iter iterations, and
\* the driver ends after at most n_components components, each of them
\* computed or loaded at most once.
C21_Terminates ==
    /\ []C21_Bounded
    /\ [][C21_Once]_vars
    /\ (pc = "process") ~> (pc # "process")
    /\ <>[](pc = "exited")

\* the second run has ended after every component was handled, the first
\* of them with max_iter iterations
C21_Witness ==
    /\ pc = "exited"
    /\ run = 2
    /\ max_iter = DriverMaxIter
    /\ n_components = MaxComponents
    /\ comp_count = n_components
    /\ disk[1].results = 0..(max_iter - 1)

\* 1 - r < tol for the rows a and b of the iteration history after the step
CloseAfter(a, b) == PassedTol(iterations_m'[a], iterations_m'[b])

\* a step of an iteration declares oscillation exactly under the conditions
\* of the test
OscillationStep ==
    io_pc \in {"loop", "selected"}
        => ((io_exit' = "oscillation")
               <=> (/\ iteration >= 3
                    /\ iteration >= min_iter
                    /\ io_exit' # "abort"
                    /\ \/ CloseAfter(iteration - 1, iteration + 1)
                       \/ CloseAfter(iteration - 2, iteration)))

\* C22: an iteration declares oscillation exactly when its index is at
\* least 3 and at least min_iter, it is not aborted, and 1 - r < tol for c'
\* against the context of two iterations ago or for the previous context
\* against the one of three iterations ago.
C22_OscillationDeclared == [][OscillationStep]_vars

\* oscillation was declared at iteration 3 on the first comparison alone
C22_Witness ==
    /\ io_exit = "oscillation"
    /\ iteration = 3
    /\ min_iter = 3
    /\ PassedTol(iterations_m[2], iterations_m[4])
    /\ ~PassedTol(iterations_m[1], iterations_m[3])

\* the samples of a row with rounded genotype g
RoundedTo(row, g) == Cardinality({i \in 1..Len(row) : Rint(row[i]) = g})

\* the statistics st are those of the row
StatsOf(st, row) ==
    LET z == RoundedTo(row, 0)
        o == RoundedTo(row, 1)
        t == RoundedTo(row, 2)
        a1 == 2 * z + o
        a2 == 2 * t + o
    IN /\ st.N = Len(row) - RoundedTo(row, -1)
       /\ (\E i \in 1..Len(row) : row[i] # GenotypeNA)
             => /\ st.zero = z /\ st.one = o /\ st.two = t
                /\ st.min_gs = Min2(z, Min2(o, t))
                /\ st.maf = <<Min2(a1, a2), a1 + a2>>

\* C23: the genotype statistics and the keep decision of a row are those of
\* the row after the call-rate masking: the samples of a masked dataset count
\* as missing, and the row is kept exactly when what remains meets the
\* thresholds.
C23_StatsAfterMasking ==
    pc = "load"
        => \A r \in 1..Len(geno_file) :
               /\ StatsOf(geno_stats_df[r].stats, MaskedRows[r])
               /\ geno_stats_df[r].mask = MeetsThresholds(r)
               /\ geno_stats_df[r].mask
                      <=> \E j \in 1..Len(eqtl_df) : eqtl_df[j].SNPName = r

\* a row was dropped for its smallest group after the masking of a dataset,
\* while its genotypes as read from the file have a smallest group of 2
C23_Witness ==
    /\ pc = "load"
    /\ \E r \in 1..Len(geno_file) :
          /\ \E d \in 1..n_datasets : LowCallRate(r, d)
          /\ geno_stats_df[r].stats.N >= 6
          /\ geno_stats_df[r].stats.min_gs = 1
          /\ ~geno_stats_df[r].mask
          /\ Min2(RoundedTo(geno_file[r], 0),
                  Min2(RoundedTo(geno_file[r], 1),
                       RoundedTo(geno_file[r], 2))) = 2
          /\ hwe[r] >= HwPval

\* no column of the matrix is a context vector
NoPICColumn(m) == \A c \in 1..Len(m) : Len(m[c]) # Len(CovsM[1])

\* the raw mapping was made once for each row of PICs.txt.gz, each on the
\* base matrices, and for no other component
RawMappingOnBase ==
    /\ NoPICColumn(corr_m)
    /\ NoPICColumn(corr_inter_m)
    /\ \A i \in 1..n_components :
          summary_stats_m[i].raw =
              IF i <= Len(pics_df)
              THEN <<[context |-> pics_df[i], X_m |-> corr_m,
                      X_inter_m |-> corr_inter_m]>>
              ELSE NaN

\* the base matrices stay as they were built, and the step that ends the
\* run leaves the raw mapping on them
BaseMatricesKept ==
    /\ pc # "tcov" => (corr_m' = corr_m /\ corr_inter_m' = corr_inter_m)
    /\ (pc = "finish" /\ exit_reason' = "finished") => RawMappingOnBase'

\* C24: the loop never modifies the base correction matrices, and the raw
\* ieQTL mapping residualises against them, without any PIC column, once
\* for each PIC of PICs.txt.gz, however many components were computed or
\* loaded.
C24_RawMappingOnBase == [][BaseMatricesKept]_vars

\* a run that loaded its components has ended with two PICs mapped on base
\* matrices that are shorter than the matrices of the loop
C24_Witness ==
    /\ pc = "exited"
    /\ exit_reason = "finished"
    /\ loaded # {}
    /\ Len(pics_df) >= 2
    /\ corr_m # None
    /\ Len(pic_corr_m) > Len(corr_m)
    /\ RawMappingOnBase

\* C25: every row of iteration.txt.gz is a context vector that was assigned
\* during the call, and the first row is the seed of iteration 0, also when
\* the call is aborted at iteration 0.
C25_RowsAssigned ==
    io_pc = "returned"
        => /\ disk[outdir].iteration # <<>>
           /\ \A i \in 1..Len(disk[outdir].iteration) :
                 disk[outdir].iteration[i] # Uninit
           /\ cov # NoCov => disk[outdir].iteration[1] = CovsM[cov]

\* C26: a context vector that process returns is the last row of
\* iteration.txt.gz, whatever way the loop ended.
C26_ReturnedIsLastRow ==
    (io_pc = "returned" /\ context_a # None)
        => /\ disk[outdir].iteration # <<>>
           /\ context_a = disk[outdir].iteration[Len(disk[outdir].iteration)]

\* C27: with a context vector process returns the ieQTL count of the last
\* row of info.txt.gz.
C27_ReturnedCountIsLastRow ==
    (io_pc = "returned" /\ context_a # None)
        => /\ disk[outdir].info # <<>>
           /\ n_hits = disk[outdir].info[Len(disk[outdir].info)]

\* a fresh run without force_continue
FreshUnforced == run = 1 /\ ~force_continue

\* C28: in a fresh run without force_continue a component is computed only
\* after a component that converged, so only the last component can be one
\* that did not converge; that one is saved as component.npy and in
\* components.txt.gz and is left out of PICs.txt.gz and of the raw mapping,
\* and PICs.txt.gz holds every other component.
C28_PICsConverged ==
    FreshUnforced
        => /\ pc = "process" => ~stop
           /\ (pc = "exited" /\ exit_reason = "finished")
                 => /\ pic_a = None => ~stop
                    /\ components_df = SubSeq(pic_m, 1, n_components_performed)
                    /\ "components.txt.gz" \in files
                    /\ \A i \in 1..n_components_performed :
                          disk[i].component = pic_m[i]
                    /\ pics_df =
                          SubSeq(components_df, 1,
                                 IF stop THEN n_components_performed - 1
                                 ELSE n_components_performed)
                    /\ stop => summary_stats_m[n_components_performed].raw = NaN

\* a fresh run has ended with a second component that did not converge and
\* with the first component alone in PICs.txt.gz
C28_Witness ==
    /\ FreshUnforced
    /\ pc = "exited"
    /\ exit_reason = "finished"
    /\ stop
    /\ n_components_performed = 2
    /\ disk[2].component # None
    /\ Len(components_df) = 2
    /\ pics_df = <<pic_m[1]>>

\* C29: with more than one candidate covariate, the candidate selected at
\* iteration 0 has at least 2 ieQTLs and at least 2 per sample, so neither
\* abort check fires at iteration 0; the component is given up at iteration 0
\* only when no candidate is eligible, and then process returns no context
\* with stop = FALSE, having written neither covariate_selection.txt.gz nor
\* a results_iteration file.
C29_MultiCandidateDiscard ==
    n_covs # 1
        => /\ io_pc = "selected"
                => /\ n_hits >= 2
                   /\ min_n_hits_per_sample >= 2
                   /\ ~Aborts(n_hits, min_n_hits_per_sample)
                   /\ disk[outdir].covariate_selection
           /\ io_exit = "abort" => iteration >= 1 /\ context_a # None
           /\ (io_pc \in {"save", "returned"} /\ context_a = None)
                => /\ io_exit = "novalid"
                   /\ Eligible(hits_per_cov_data) = {}
                   /\ ~io_stop
                   /\ ~disk[outdir].covariate_selection
                   /\ disk[outdir].results = {}
           /\ io_exit = "novalid" => context_a = None

\* process has returned without a context because none of three candidates
\* had 2 ieQTLs per sample, one of them with 9 ieQTLs
C29_Witness ==
    /\ n_covs = 3
    /\ io_pc = "returned"
    /\ io_exit = "novalid"
    /\ context_a = None
    /\ hits_per_cov_data[1] = <<9, 0>>
    /\ hits_per_cov_data[2] = <<3, 1>>

\* C30: the interaction correction matrix is given only together with the
\* plain correction matrix: for the base matrices and for the matrices of
\* the loop from their construction on, at the call of remove_covariates
\* for every component and at the call for the raw mapping, whose final del
\* therefore never raises.
C30_InterOnlyWithPlain ==
    /\ corr_inter_m # None => corr_m # None
    /\ pic_corr_inter_m # None => pic_corr_m # None
    /\ pc = "process" => ~DelRaises(pic_corr_m, pic_corr_inter_m)
    /\ pc \in {"finish", "exited"} => ~DelRaises(corr_m, corr_inter_m)
    /\ (pc = "exited" /\ exit_reason = "finished")
          => \A i \in 1..Len(pics_df) :
                ~DelRaises(summary_stats_m[i].raw[1].X_m,
                           summary_stats_m[i].raw[1].X_inter_m)

\* remove_covariates is called for the second component of one dataset
\* with interaction covariates and no technical covariates
C30_Witness ==
    /\ pc = "process"
    /\ n_datasets = 1
    /\ ~tcov
    /\ tcov_inter
    /\ comp_count = 1
    /\ pic_corr_inter_m = << <<"tcov_inter">>, pic_a >>
    /\ pic_corr_m = << <<"tcov_inter">>, pic_a >>

====
